---- MODULE Spec2Model ----
(***************************************************************************)
(* Model of integration/rule_engine/rule_engine_core.py: the rule compiler *)
(* load_filter_patterns and the report filter apply_filter.                *)
(*                                                                         *)
(* Python values are modelled as follows.  A str is a sequence of          *)
(* one-character strings, so "" is << >>.  A dict is a function from keys  *)
(* (TLA+ strings) to values, so a record; a missing key is a key outside   *)
(* its DOMAIN.  A list is a sequence.  The document handed to apply_filter *)
(* and the value under its "data" key carry their Python type explicitly   *)
(* ([type |-> ..., val |-> ...]) because the empty dict, the empty list    *)
(* and the empty str would otherwise be the same TLA+ value.               *)
(***************************************************************************)
EXTENDS Integers, Sequences, FiniteSets, TLC

VARIABLES
    stage,          \* how far the run is: "start", "loaded", "filtered", "refiltered"
                    \* (rule compiler alone: "start", "compiled", "searched")
    rule_file,      \* the lines of the rule file
    filters,        \* the compiled rules, in order
    data,           \* the document apply_filter works on
    before,         \* the document as it was handed to the latest call
    err,            \* the exception the latest call raised, "none" if it returned
    all_files_pkg,  \* the seen-files mapping at the end of the latest call
    path,           \* the file path the rules were searched in
    found           \* for each rule, whether it was found in path

vars == <<stage, rule_file, filters, data, before, err, all_files_pkg, path, found>>

----------------------------------------------------------------------------
(* Bounds of the model *)

MaxPkgs == 2
MaxReports == 2
MaxTotalReports == 3
MaxLineLen == 3
MaxPathLen == 5

----------------------------------------------------------------------------
(* Strings *)

Whitespace == {" ", "\t", "\n", "\r", "\f"}

\* s[a..b], empty when a > b
Slice(s, a, b) == [i \in 1..(b - a + 1) |-> s[a + i - 1]]

\* Python's `sub in s` for two strs
Contains(s, sub) ==
    \E i \in 1..(Len(s) - Len(sub) + 1) : Slice(s, i, i + Len(sub) - 1) = sub

\* str.strip(): leading and trailing whitespace removed
Strip(s) ==
    LET keep == {i \in 1..Len(s) : s[i] \notin Whitespace}
    IN  IF keep = {} THEN << >>
        ELSE LET lo == CHOOSE i \in keep : \A j \in keep : i <= j
                 hi == CHOOSE i \in keep : \A j \in keep : j <= i
             IN  Slice(s, lo, hi)

\* index of the first occurrence of character c in s, 0 when there is none
FirstIndex(s, c) ==
    IF \E i \in 1..Len(s) : s[i] = c
    THEN CHOOSE i \in 1..Len(s) : s[i] = c /\ \A j \in 1..(i - 1) : s[j] # c
    ELSE 0

----------------------------------------------------------------------------
(* Regular expressions: a compiled pattern is a sequence of tokens *)

Lit(c) == [t |-> "lit", c |-> c]
Opt(c) == [t |-> "opt", c |-> c]
SpaceStar == [t |-> "space*", c |-> ""]
NotSlashPlus == [t |-> "notslash+", c |-> ""]
EndAnchor == [t |-> "end", c |-> ""]

\* re.escape(s): every character of s taken literally
Escape(s) == [i \in 1..Len(s) |-> Lit(s[i])]

RECURSIVE MatchFrom(_, _, _, _)
\* whether tokens k.. of regex match s starting at position i
MatchFrom(regex, k, s, i) ==
    IF k > Len(regex) THEN TRUE
    ELSE LET tok == regex[k] IN
      CASE tok.t = "lit" ->
             i <= Len(s) /\ s[i] = tok.c /\ MatchFrom(regex, k + 1, s, i + 1)
        [] tok.t = "opt" ->
             \/ i <= Len(s) /\ s[i] = tok.c /\ MatchFrom(regex, k + 1, s, i + 1)
             \/ MatchFrom(regex, k + 1, s, i)
        [] tok.t = "space*" ->
             \E j \in i..(Len(s) + 1) :
                /\ \A m \in i..(j - 1) : s[m] \in Whitespace
                /\ MatchFrom(regex, k + 1, s, j)
        [] tok.t = "notslash+" ->
             \E j \in (i + 1)..(Len(s) + 1) :
                /\ \A m \in i..(j - 1) : s[m] # "/"
                /\ MatchFrom(regex, k + 1, s, j)
        [] tok.t = "end" ->
             /\ \/ i = Len(s) + 1
                \/ i = Len(s) /\ s[i] = "\n"
             /\ MatchFrom(regex, k + 1, s, i)

\* regex.search(s): a match starting anywhere in s
Search(regex, s) == \E i \in 1..(Len(s) + 1) : MatchFrom(regex, 1, s, i)

----------------------------------------------------------------------------
(* load_filter_patterns *)

Str_virtual == <<"v", "i", "r", "t", "u", "a", "l">>
Str_lockbud == <<"l", "o", "c", "k", "b", "u", "d">>
Str_audit == <<"a", "u", "d", "i", "t">>
Str_SlashCargoLock == <<"/", "C", "a", "r", "g", "o", ".", "l", "o", "c", "k">>
Str_NotSupported ==
    <<"[", "l", "o", "c", "k", "b", "u", "d", "]", " ", "N", "o", "t", " ",
      "s", "u", "p", "p", "o", "r", "t", "e", "d", " ", "t", "o", " ",
      "d", "i", "s", "p", "l", "a", "y", " ", "y", "e", "t", ".">>
Str_rustlib ==
    <<"r", "u", "s", "t", "l", "i", "b", "/", "s", "r", "c", "/",
      "r", "u", "s", "t", "/", "l", "i", "b", "r", "a", "r", "y">>

\* the five hardcoded rules, in the order they are appended
BuiltinRules ==
    << <<Opt("(")>> \o Escape(Str_virtual) \o <<Opt(")"), SpaceStar>> \o Escape(Str_lockbud),
       <<Opt("(")>> \o Escape(Str_virtual) \o <<Opt(")"), SpaceStar>> \o Escape(Str_audit),
       Escape(Str_SlashCargoLock) \o <<EndAnchor>>,
       Escape(Str_NotSupported),
       Escape(Str_rustlib) >>

\* crate_with_version.split("-")[0], kept whole (the version is not cut off)
CrateName_KeepVersion(crate_with_version) == crate_with_version

\* crate_with_version.split("-")[0]
CrateName(crate_with_version) ==
    LET dash == FirstIndex(crate_with_version, "-")
    IN  IF dash = 0 THEN crate_with_version
        ELSE Slice(crate_with_version, 1, dash - 1)

\* the regex built for one stripped, non-empty line
LineRegex(p) ==
    LET slash == FirstIndex(p, "/") IN
    IF slash # 0
    THEN LET crate_with_version == Slice(p, 1, slash - 1)
             subpath == Slice(p, slash + 1, Len(p))
             crate_name == CrateName(crate_with_version)
         IN  Escape(crate_name) \o <<Lit("-"), NotSlashPlus, Lit("/")>> \o Escape(subpath)
    ELSE Escape(p)

RECURSIVE CompileLines(_)
\* the loop over the lines of the rule file: one regex per non-blank line
CompileLines(lines) ==
    IF lines = << >> THEN << >>
    ELSE LET p == Strip(Head(lines))
         IN  IF p = << >> THEN CompileLines(Tail(lines))
             ELSE <<LineRegex(p)>> \o CompileLines(Tail(lines))

load_filter_patterns(lines) == CompileLines(lines) \o BuiltinRules

----------------------------------------------------------------------------
(* apply_filter *)

Str_CargoLock == <<"C", "a", "r", "g", "o", ".", "l", "o", "c", "k">>
Str_data == <<"d", "a", "t", "a">>

\* dict.get(k, default)
Get(d, k, default) == IF k \in DOMAIN d THEN d[k] ELSE default

\* d[k] = v
SetKey(d, k, v) == [y \in DOMAIN d \cup {k} |-> IF y = k THEN v ELSE d[y]]

JDict(d) == [type |-> "dict", val |-> d]
JList(l) == [type |-> "list", val |-> l]
JStr(s) == [type |-> "str", val |-> s]
JInt == [type |-> "int", val |-> <<"4", "2">>]
JNull == [type |-> "null", val |-> << >>]

\* the same test with regex.match, which matches at the start of the file only
AnyRuleMatches_Match(report, regexes) ==
    \E k \in 1..Len(regexes) : MatchFrom(regexes[k], 1, Get(report, "file", << >>), 1)

\* any(regex.search(report.get("file", "")) for regex in filters)
AnyRuleMatches(report, regexes) ==
    \E k \in 1..Len(regexes) : Search(regexes[k], Get(report, "file", << >>))

\* the list comprehension without its condition
Filtered_KeepAll(raw_reports, regexes) == raw_reports

\* the list comprehension: the reports no rule matches, in order
Filtered(raw_reports, regexes) ==
    SelectSeq(raw_reports, LAMBDA report : ~AnyRuleMatches(report, regexes))

\* `package not in valid_packages`, taken to hold always
NotIn_Always(package, valid_packages) == TRUE

\* `package not in valid_packages`, by value
NotIn(package, valid_packages) ==
    \A j \in 1..Len(valid_packages) : valid_packages[j] # package

\* `file in all_files_pkg`, taken to fail always
AlreadySeen_Never(file, seen) == FALSE

\* `file in all_files_pkg`
AlreadySeen(file, seen) == file \in DOMAIN seen

\* the inner loop running over raw_reports instead of filtered
LoopReports_Raw(raw_reports, filtered) == raw_reports

\* the list the inner loop runs over: `for raw_report in filtered`
LoopReports(raw_reports, filtered) == filtered

\* the two assignments, with count taken from the unfiltered list
UpdatedPackage_RawCount(package, raw_reports, filtered) ==
    SetKey(SetKey(package, "raw_reports", filtered), "count", Len(raw_reports))

\* package["raw_reports"] = filtered; package["count"] = len(filtered)
UpdatedPackage(package, raw_reports, filtered) ==
    SetKey(SetKey(package, "raw_reports", filtered), "count", Len(filtered))

RECURSIVE ReportLoop(_, _, _, _)
\* the inner loop of the first pass over one package, from reports[k] on;
\* env = [pkg_name, raw_reports, filtered] are the names it reads,
\* st = [all_files_pkg, valid_packages, package] is what it changes
ReportLoop(reports, k, env, st) ==
    IF k > Len(reports) THEN st
    ELSE
      LET file == Get(reports[k], "file", << >>) IN
      IF AlreadySeen(file, st.all_files_pkg)
      THEN ReportLoop(reports, k + 1, env,
             [st EXCEPT !.all_files_pkg =
                 SetKey(st.all_files_pkg, file,
                        st.all_files_pkg[file] \cup {env.pkg_name})])
      ELSE
        LET seen == SetKey(st.all_files_pkg, file, {env.pkg_name})
            count == Len(env.filtered)
        IN  IF count > 0
            THEN LET package == UpdatedPackage(st.package, env.raw_reports, env.filtered)
                 IN  ReportLoop(reports, k + 1, env,
                       [all_files_pkg |-> seen,
                        valid_packages |->
                            IF NotIn(package, st.valid_packages)
                            THEN Append(st.valid_packages, package)
                            ELSE st.valid_packages,
                        package |-> package])
            ELSE ReportLoop(reports, k + 1, env,
                            [st EXCEPT !.all_files_pkg = seen])

RECURSIVE PackageLoop(_, _, _)
\* the first loop over data["data"], from package i on;
\* st = [all_files_pkg, valid_packages, packages], packages being the list
\* whose elements the loop changes in place
PackageLoop(i, regexes, st) ==
    IF i > Len(st.packages) THEN st
    ELSE
      LET package == st.packages[i]
          pkg_name == Get(package, "pkg", << >>)
          raw_reports == Get(package, "raw_reports", << >>)
          filtered == Filtered(raw_reports, regexes)
          r == ReportLoop(LoopReports(raw_reports, filtered), 1,
                          [pkg_name |-> pkg_name, raw_reports |-> raw_reports,
                           filtered |-> filtered],
                          [all_files_pkg |-> st.all_files_pkg,
                           valid_packages |-> st.valid_packages,
                           package |-> package])
      IN  PackageLoop(i + 1, regexes,
            [all_files_pkg |-> r.all_files_pkg,
             valid_packages |-> r.valid_packages,
             packages |-> [st.packages EXCEPT ![i] = r.package]])

\* the inner loop of the second pass: the first report of raw_reports whose
\* file contains "Cargo.lock", as a list of at most one report
FirstLockReport(raw_reports) ==
    LET hits == {k \in 1..Len(raw_reports) :
                    Contains(Get(raw_reports[k], "file", << >>), Str_CargoLock)}
    IN  IF hits = {} THEN << >>
        ELSE <<raw_reports[CHOOSE k \in hits : \A m \in hits : k <= m]>>

\* the second loop over data["data"]: what it appends to valid_packages
LockfileScan(packages) ==
    LET hits == {i \in 1..Len(packages) :
                    FirstLockReport(Get(packages[i], "raw_reports", << >>)) # << >>}
    IN  IF hits = {} THEN << >>
        ELSE LET i == CHOOSE i \in hits : \A m \in hits : i <= m
             IN  FirstLockReport(Get(packages[i], "raw_reports", << >>))

\* `"data" in data` for the Python types that support `in`
HasData(doc) ==
    CASE doc.type = "dict" -> "data" \in DOMAIN doc.val
      [] doc.type = "list" -> \E i \in 1..Len(doc.val) : doc.val[i] = JStr(Str_data)
      [] doc.type = "str" -> Contains(doc.val, Str_data)

Outcome(doc, e, seen) == [data |-> doc, err |-> e, all_files_pkg |-> seen]

\* the two loops and the final assignment, for a dict whose "data" is a list
\* of dicts (packages, or the bare reports an earlier run left there)
FilterList(doc, regexes) ==
    LET first == PackageLoop(1, regexes,
                     [all_files_pkg |-> << >>,
                      valid_packages |-> << >>,
                      packages |-> Get(doc.val, "data", JList(<< >>)).val])
        valid_packages == first.valid_packages \o LockfileScan(first.packages)
    IN  Outcome(JDict(SetKey(doc.val, "data", JList(valid_packages))),
                "none", first.all_files_pkg)

\* everything after the early return
FilterBody(doc, regexes) ==
    IF doc.type # "dict"
    THEN Outcome(doc, "AttributeError", << >>)     \* no .get on a list or str
    ELSE
      LET d == Get(doc.val, "data", JList(<< >>)) IN
      CASE d.type = "list" -> FilterList(doc, regexes)
        [] d.type \in {"int", "null"} ->
             Outcome(doc, "TypeError", << >>)      \* not iterable
        [] d.type = "dict" ->
             \* iterating a dict yields its keys; a str has no .get
             IF DOMAIN d.val = {}
             THEN Outcome(JDict(SetKey(doc.val, "data", JList(<< >>))), "none", << >>)
             ELSE Outcome(doc, "AttributeError", << >>)
        [] d.type = "str" ->
             \* iterating a str yields its characters; a str has no .get
             IF Len(d.val) = 0
             THEN Outcome(JDict(SetKey(doc.val, "data", JList(<< >>))), "none", << >>)
             ELSE Outcome(doc, "AttributeError", << >>)

\* apply_filter without `if "data" not in data: return`
apply_filter_NoEarlyReturn(doc, regexes) ==
    IF doc.type \in {"int", "null"}
    THEN Outcome(doc, "TypeError", << >>)
    ELSE FilterBody(doc, regexes)

\* apply_filter(data, filters): the document afterwards, the exception raised
\* ("none" when it returns) and the final all_files_pkg
apply_filter(doc, regexes) ==
    IF doc.type \in {"int", "null"}
    THEN Outcome(doc, "TypeError", << >>)          \* `in` on a non-container
    ELSE IF ~HasData(doc)
    THEN Outcome(doc, "none", << >>)               \* the early return
    ELSE FilterBody(doc, regexes)

----------------------------------------------------------------------------
(* Inputs *)

Str_a_rs == <<"a", ".", "r", "s">>
Str_x_CargoLock == <<"x", "/", "C", "a", "r", "g", "o", ".", "l", "o", "c", "k">>
Str_p1 == <<"p", "1">>

SeqsUpTo(S, n) == UNION {[1..k -> S] : k \in 0..n}

\* reports: three file values, and a report without a "file" key
Reports ==
    {[file |-> f] : f \in {Str_a_rs, Str_x_CargoLock, Str_CargoLock}}
        \cup {[kind |-> Str_audit]}

RECURSIVE Sum(_)
Sum(sizes) == IF sizes = << >> THEN 0 ELSE Head(sizes) + Sum(Tail(sizes))

\* how many reports each package of a document holds: at most MaxPkgs
\* packages of at most MaxReports reports, MaxTotalReports in all
Shapes ==
    {sizes \in SeqsUpTo(0..MaxReports, MaxPkgs) : Sum(sizes) <= MaxTotalReports}

\* which packages have a "pkg" key: all, or all but the first
NameMasks(npk) == {[i \in 1..npk |-> TRUE], [i \in 1..npk |-> i # 1]}

\* the document whose i-th package holds the next sizes[i] reports of rs, with
\* a "pkg" key when named[i]; the analyzer's count is the number of raw reports
WellFormedDoc(sizes, rs, named) ==
    LET raw(i) == Slice(rs, Sum(Slice(sizes, 1, i - 1)) + 1, Sum(Slice(sizes, 1, i)))
        package(i) ==
            IF named[i]
            THEN [pkg |-> Str_p1, raw_reports |-> raw(i), count |-> sizes[i]]
            ELSE [raw_reports |-> raw(i), count |-> sizes[i]]
    IN  JDict([data |-> JList([i \in 1..Len(sizes) |-> package(i)]),
               tool |-> JStr(Str_lockbud)])

\* dicts without a "data" key
NoDataDocs ==
    {JDict(<< >>), JDict([tool |-> JStr(Str_lockbud)]),
     JDict([tool |-> JStr(Str_lockbud), count |-> JInt])}

\* documents that are no dict, and dicts whose "data" is no list
MalformedDocs ==
    {JList(<< >>), JList(<<JStr(Str_data)>>), JStr(<< >>), JStr(Str_data), JInt, JNull}
    \cup {JDict([data |-> d, tool |-> JStr(Str_lockbud)]) :
            d \in {JDict(<< >>), JDict([pkg |-> JStr(Str_p1)]),
                   JStr(<< >>), JStr(Str_a_rs), JInt, JNull}}

\* rule files: none, and a blank line followed by the line "a.rs"
RuleFiles == {<< >>, << <<" ", "\n">>, Str_a_rs \o <<"\n">> >>}

Unloaded == [type |-> "none", val |-> << >>]

\* single rule lines: short lines over a small alphabet, bare and with
\* surrounding whitespace, and the lines of the documented examples
Str_foo_123 ==
    <<"f", "o", "o", "-", "1", ".", "2", ".", "3", "/",
      "b", "a", "r", "/", "b", "a", "z", ".", "r", "s">>
Str_foo_999 ==
    <<"f", "o", "o", "-", "9", ".", "9", ".", "9", "/",
      "b", "a", "r", "/", "b", "a", "z", ".", "r", "s">>
Str_other_123 ==
    <<"o", "t", "h", "e", "r", "-", "1", ".", "2", ".", "3", "/",
      "b", "a", "r", "/", "b", "a", "z", ".", "r", "s">>
Str_special == <<"s", "p", "e", "c", "i", "a", "l", ".", "r", "s">>
Str_src_special ==
    <<"s", "r", "c", "/", "s", "p", "e", "c", "i", "a", "l", ".", "r", "s",
      ".", "b", "a", "k">>

Alphabet == {"a", "-", "/"}

Lines ==
    LET cores == SeqsUpTo(Alphabet, MaxLineLen) \cup {Str_foo_123, Str_special}
    IN  cores \cup {<<" ">> \o c \o <<"\n">> : c \in cores}

Paths ==
    SeqsUpTo(Alphabet, MaxPathLen)
        \cup {Str_foo_123, Str_foo_999, Str_other_123, Str_special, Str_src_special}

----------------------------------------------------------------------------
(* The filtering run: main() loads the rules and the document, then calls  *)
(* apply_filter; a second call on the result is the re-run of the filter   *)
(* on its own output.                                                      *)

Init ==
    /\ stage = "start"
    /\ rule_file \in RuleFiles
    /\ filters = << >>
    /\ data = Unloaded
    /\ before = Unloaded
    /\ err = "none"
    /\ all_files_pkg = << >>
    /\ path = << >>
    /\ found = << >>

\* filters = load_filter_patterns(); result = load_analysis_result(result_path)
Load ==
    /\ stage = "start"
    /\ stage' = "loaded"
    /\ filters' = load_filter_patterns(rule_file)
    /\ \/ \E doc \in NoDataDocs \cup MalformedDocs : data' = doc
       \/ \E sizes \in Shapes :
            \E rs \in [1..Sum(sizes) -> Reports] :
              \E named \in NameMasks(Len(sizes)) :
                data' = WellFormedDoc(sizes, rs, named)
    /\ UNCHANGED <<rule_file, before, err, all_files_pkg, path, found>>

\* apply_filter(result, filters)
ApplyFilter ==
    /\ \/ stage = "loaded" /\ stage' = "filtered"
       \/ stage = "filtered" /\ err = "none" /\ stage' = "refiltered"
    /\ LET r == apply_filter(data, filters)
       IN  /\ data' = r.data
           /\ err' = r.err
           /\ all_files_pkg' = r.all_files_pkg
    /\ before' = data
    /\ UNCHANGED <<rule_file, filters, path, found>>

Next == Load \/ ApplyFilter

Spec == Init /\ [][Next]_vars

----------------------------------------------------------------------------
(* The rule compiler on one line, and the search of the compiled rules in  *)
(* one path.                                                               *)

InitRules ==
    /\ stage = "start"
    /\ rule_file \in {<<l>> : l \in Lines}
    /\ filters = << >>
    /\ data = Unloaded
    /\ before = Unloaded
    /\ err = "none"
    /\ all_files_pkg = << >>
    /\ path = << >>
    /\ found = << >>

\* filters = load_filter_patterns()
LoadRules ==
    /\ stage = "start"
    /\ stage' = "compiled"
    /\ filters' = load_filter_patterns(rule_file)
    /\ UNCHANGED <<rule_file, data, before, err, all_files_pkg, path, found>>

\* regex.search(file) for each regex in filters, on one file path
SearchPath ==
    /\ stage = "compiled"
    /\ stage' = "searched"
    /\ \E p \in Paths :
         /\ path' = p
         /\ found' = [k \in 1..Len(filters) |-> Search(filters[k], p)]
    /\ UNCHANGED <<rule_file, filters, data, before, err, all_files_pkg>>

NextRules == LoadRules \/ SearchPath

SpecRules == InitRules /\ [][NextRules]_vars

----------------------------------------------------------------------------
(* Properties.  `before` is the document handed to the latest call of      *)
(* apply_filter and `data` the document after it.                          *)

Called == stage \in {"filtered", "refiltered"}

\* the latest call was made on a dict whose "data" is a list
CallOnList ==
    /\ Called
    /\ before.type = "dict"
    /\ "data" \in DOMAIN before.val
    /\ before.val["data"].type = "list"

InList == before.val["data"].val
OutList == data.val["data"].val

\* an entry of a "data" list that is a Package, not a bare Report
IsPackage(e) == "raw_reports" \in DOMAIN e
IsBare(e) == ~IsPackage(e)

InPackages == SelectSeq(InList, IsPackage)
OutPackages == SelectSeq(OutList, IsPackage)
OutBare == SelectSeq(OutList, IsBare)

FileOf(report) == IF "file" \in DOMAIN report THEN report.file ELSE << >>
Files(reports) == {FileOf(reports[k]) : k \in 1..Len(reports)}

\* no rule of `filters` is found anywhere in the report's file
NoRuleMatches(report) ==
    \A k \in 1..Len(filters) : ~Search(filters[k], FileOf(report))

RawOf(i) == IF IsPackage(InList[i]) THEN InList[i].raw_reports ELSE << >>

\* the filtered report list of the i-th package of the input
Surviving(i) == SelectSeq(RawOf(i), NoRuleMatches)

\* the i-th package with its filtered list and the count of it
AsRetained(i) ==
    [k \in DOMAIN InList[i] \cup {"raw_reports", "count"} |->
        CASE k = "raw_reports" -> Surviving(i)
          [] k = "count" -> Len(Surviving(i))
          [] OTHER -> InList[i][k]]

\* some file of the i-th package's filtered list is in no earlier package's
FirstSeenHere(i) ==
    \E f \in Files(Surviving(i)) :
        \A j \in 1..(i - 1) : f \notin Files(Surviving(j))

MinOf(S) == CHOOSE x \in S : \A y \in S : x <= y

HasLock(report) == Contains(FileOf(report), Str_CargoLock)

\* the report list of the i-th package as the first pass leaves it
LeftBy(i) == IF FirstSeenHere(i) THEN Surviving(i) ELSE RawOf(i)

\* the first package whose list, as the first pass leaves it, holds a report
\* on a Cargo.lock file; 0 when there is none
LockSource ==
    LET hits == {i \in 1..Len(InList) : SelectSeq(LeftBy(i), HasLock) # << >>}
    IN  IF hits = {} THEN 0 ELSE MinOf(hits)

\* C1: after apply_filter on a document with a data list, every Package
\* entry of the output holds only reports whose file no rule matches, and its
\* count is the length of its raw_reports.
C1_RetainedAreFiltered ==
    CallOnList =>
        \A k \in 1..Len(OutPackages) :
            LET e == OutPackages[k] IN
            /\ \A m \in 1..Len(e.raw_reports) : NoRuleMatches(e.raw_reports[m])
            /\ "count" \in DOMAIN e
            /\ e.count = Len(e.raw_reports)

\* a package that lost a report to the rules and kept another is in the output
C1_Witness ==
    /\ CallOnList
    /\ \E i \in 1..Len(InList) :
          /\ Surviving(i) # << >>
          /\ Surviving(i) # RawOf(i)
          /\ \E k \in 1..Len(OutPackages) : OutPackages[k] = AsRetained(i)

\* C2 (as claimed): when some report of the input document has a file
\* containing Cargo.lock, the output holds exactly one bare Report entry, the
\* first such report of the input in package and report order.
C2_LockfileFromOriginal ==
    CallOnList =>
        LET hits == {i \in 1..Len(InList) : SelectSeq(RawOf(i), HasLock) # << >>}
        IN  hits # {} =>
                OutBare = <<Head(SelectSeq(RawOf(MinOf(hits)), HasLock))>>

\* C3 (as claimed): after a second run on the output of the first, every entry
\* of the first run's data list is still an entry of the data list.
C3_NoFurtherRemovals ==
    (stage = "refiltered" /\ CallOnList) =>
        \A k \in 1..Len(InList) : \E j \in 1..Len(OutList) : OutList[j] = InList[k]

\* C3 (amended): a second run on the output of the first leaves the Package
\* entries, their reports and their order as they were; only the bare
\* lockfile entry can go.  A run that returned early leaves the document.
C3_PackagesStay ==
    stage = "refiltered" =>
        IF CallOnList THEN OutPackages = InPackages ELSE data = before

\* a second run that kept a package and dropped the bare lockfile entry
C3_Witness ==
    /\ stage = "refiltered"
    /\ CallOnList
    /\ InPackages # << >>
    /\ \E k \in 1..Len(InList) :
          /\ IsBare(InList[k])
          /\ \A j \in 1..Len(OutList) : OutList[j] # InList[k]

\* the packages whose filtered list holds file f
Holders(f) == {i \in 1..Len(InList) : f \in Files(Surviving(i))}

\* the Package entries of the output that carry a report on file f
Carriers(f) == {k \in 1..Len(OutPackages) : f \in Files(OutPackages[k].raw_reports)}

SharedFiles ==
    {f \in UNION {Files(Surviving(i)) : i \in 1..Len(InList)} :
        Cardinality(Holders(f)) >= 2}

\* C4 (as claimed): a file that survives filtering in two packages is carried
\* by exactly one Package entry of the output, the first package that has it.
C4_OneEntryPerSharedFile ==
    CallOnList =>
        \A f \in SharedFiles :
            /\ Cardinality(Carriers(f)) = 1
            /\ \A k \in Carriers(f) : OutPackages[k] = AsRetained(MinOf(Holders(f)))

\* C4 (amended): the first package that has the shared file is emitted and is
\* the first output entry carrying it; a later package that has it is emitted
\* too, with the shared file, exactly when its filtered list has a file that
\* no earlier package has.
C4_SharedFileEntries ==
    CallOnList =>
        \A f \in SharedFiles :
            /\ Carriers(f) # {}
            /\ OutPackages[MinOf(Carriers(f))] = AsRetained(MinOf(Holders(f)))
            /\ Cardinality(Carriers(f)) =
                   Cardinality({i \in Holders(f) : FirstSeenHere(i)})

\* two packages share a surviving file and the later one is not emitted
C4_Witness ==
    /\ CallOnList
    /\ \E f \in SharedFiles :
          /\ Cardinality(Carriers(f)) = 1
          /\ \E i \in Holders(f) : ~FirstSeenHere(i)

\* the packages all of whose reports some rule matches
FullyFiltered == {i \in 1..Len(InList) : IsPackage(InList[i]) /\ Surviving(i) = << >>}

\* C5 (as claimed): a package whose filtered list is empty puts nothing in
\* the output: neither itself nor any of its reports is an entry.
C5_NothingFromFilteredPackage ==
    CallOnList =>
        \A i \in FullyFiltered :
            /\ \A k \in 1..Len(OutPackages) :
                  OutPackages[k] # InList[i] /\ OutPackages[k] # AsRetained(i)
            /\ LockSource # i

\* C5 (amended): a package whose filtered list is empty is no Package entry
\* of the output and adds no seen file; the one thing the output can take
\* from it is the bare lockfile entry, its first report on a Cargo.lock file,
\* taken when no earlier package, as the first pass leaves it, has one.
C5_FilteredPackageDropped ==
    CallOnList =>
        /\ \A i \in FullyFiltered :
              /\ \A k \in 1..Len(OutPackages) :
                    OutPackages[k] # InList[i] /\ OutPackages[k] # AsRetained(i)
              /\ LockSource = i => OutBare = <<Head(SelectSeq(RawOf(i), HasLock))>>
        /\ LockSource = 0 => OutBare = << >>
        /\ \A f \in DOMAIN all_files_pkg :
              /\ Holders(f) # {}
              /\ all_files_pkg[f] =
                     {IF "pkg" \in DOMAIN InList[i] THEN InList[i].pkg ELSE << >> :
                         i \in Holders(f)}

\* a package with reports, all matched, yields the bare lockfile entry
C5_Witness ==
    /\ CallOnList
    /\ \E i \in FullyFiltered :
          /\ RawOf(i) # << >>
          /\ LockSource = i
          /\ OutBare # << >>

\* a document that is no dict, or whose "data" is no list
IsMalformed(doc) ==
    \/ doc.type # "dict"
    \/ "data" \in DOMAIN doc.val /\ doc.val["data"].type # "list"

\* C6 (as claimed): apply_filter on a malformed document fails with
\* MalformedInputError and leaves the document; a report without file or a
\* package without pkg makes no call fail.
C6_MalformedRejected ==
    Called =>
        IF IsMalformed(before)
        THEN err = "MalformedInputError" /\ data = before
        ELSE err = "none"

\* C8: apply_filter on a dict without a "data" key raises nothing and leaves
\* every key of the document as it was, whatever the rules.
C8_NoDataNoChange ==
    (Called /\ before.type = "dict" /\ "data" \notin DOMAIN before.val) =>
        data = before /\ err = "none"

\* a call on a non-empty dict without "data", with a user rule loaded
C8_Witness ==
    /\ Called
    /\ before.type = "dict"
    /\ "data" \notin DOMAIN before.val
    /\ DOMAIN before.val # {}
    /\ Len(filters) > Len(BuiltinRules)

\* C9: the Package entries of the output are, in input order and once each,
\* the packages whose filtered list has a file that no earlier package's
\* filtered list has, each with its complete filtered list.
C9_SurvivalRule ==
    CallOnList =>
        LET idx == SelectSeq([i \in 1..Len(InList) |-> i], FirstSeenHere)
        IN  OutPackages = [k \in 1..Len(idx) |-> AsRetained(idx[k])]

\* one package is emitted, a later one with surviving reports is not
C9_Witness ==
    /\ CallOnList
    /\ \E i, j \in 1..Len(InList) :
          /\ i < j
          /\ FirstSeenHere(i)
          /\ Cardinality(Files(Surviving(i))) >= 2
          /\ Surviving(j) # << >>
          /\ ~FirstSeenHere(j)
    /\ Len(OutPackages) = 1

\* C10: the files carried by the Package entries of the output are the files
\* of the input's reports that no rule matches.
C10_NoFileLost ==
    CallOnList =>
        UNION {Files(OutPackages[k].raw_reports) : k \in 1..Len(OutPackages)}
            = UNION {Files(Surviving(i)) : i \in 1..Len(InList)}

\* a surviving file of a package that is not emitted is still carried
C10_Witness ==
    /\ CallOnList
    /\ \E i \in 1..Len(InList) :
          /\ Surviving(i) # << >>
          /\ Surviving(i) # RawOf(i)
          /\ ~FirstSeenHere(i)
          /\ \A k \in 1..Len(OutPackages) : OutPackages[k] # AsRetained(i)

\* the line of the one-line rule file, from its first to its last character
\* that is no whitespace
Trimmed ==
    LET line == rule_file[1]
        solid == {m \in 1..Len(line) : line[m] \notin Whitespace}
    IN  IF solid = {} THEN << >>
        ELSE LET first == MinOf(solid)
                 last == CHOOSE m \in solid : \A n \in solid : n <= m
             IN  [m \in 1..(last - first + 1) |-> line[first + m - 1]]

\* what C7 says the rule of trimmed line t matches
ClaimedMatch(t, p) ==
    IF \A m \in 1..Len(t) : t[m] # "/"
    THEN \E i \in 1..(Len(p) + 1) :
            /\ i + Len(t) - 1 <= Len(p)
            /\ \A m \in 1..Len(t) : p[i + m - 1] = t[m]
    ELSE
      LET slash == MinOf({m \in 1..Len(t) : t[m] = "/"})
          cut == MinOf({m \in 1..Len(t) : t[m] \in {"/", "-"}})
          crate_name == [m \in 1..(cut - 1) |-> t[m]]
          subpath == [m \in 1..(Len(t) - slash) |-> t[slash + m]]
      IN  \E i \in 1..(Len(p) + 1), j \in 1..Len(p) :
            LET dash == i + Len(crate_name) IN
            /\ dash <= Len(p)
            /\ \A m \in 1..Len(crate_name) : p[i + m - 1] = crate_name[m]
            /\ p[dash] = "-"
            /\ j > dash + 1
            /\ \A m \in (dash + 1)..(j - 1) : p[m] # "/"
            /\ p[j] = "/"
            /\ j + Len(subpath) <= Len(p)
            /\ \A m \in 1..Len(subpath) : p[j + m] = subpath[m]

\* C7: a blank line gives no rule; the rule of a non-blank line is found in a
\* path exactly when the path contains the trimmed line (a line without "/"),
\* or crate_name, "-", one or more characters other than "/", "/" and subpath
\* (a line with "/").  So foo-1.2.3/bar/baz.rs matches foo-9.9.9/bar/baz.rs
\* and not other-1.2.3/bar/baz.rs.
C7_CompiledRule ==
    stage = "searched" =>
        LET t == Trimmed IN
        IF t = << >>
        THEN filters = BuiltinRules
        ELSE /\ Len(filters) = Len(BuiltinRules) + 1
             /\ found[1] <=> ClaimedMatch(t, path)
             /\ (t = Str_foo_123 /\ path = Str_foo_999) => found[1]
             /\ (t = Str_foo_123 /\ path = Str_other_123) => ~found[1]
             /\ (t = Str_special /\ path = Str_src_special) => found[1]

\* the rule of " foo-1.2.3/bar/baz.rs\n" is found in foo-9.9.9/bar/baz.rs
C7_Witness ==
    /\ stage = "searched"
    /\ rule_file[1] # Str_foo_123
    /\ Trimmed = Str_foo_123
    /\ path = Str_foo_999
    /\ found[1]

====
